---- MODULE Spec2Model ----
(***************************************************************************)
(* Model of scripts/search_knowledge.py: a one-shot pipeline that reads a  *)
(* source file, looks up the first occurrence of each term of a fixed      *)
(* list, cuts a clamped context window around every match and writes the   *)
(* joined blocks to search_results.txt.                                    *)
(*                                                                         *)
(* Text is a sequence of Unicode code points, as a Python str is.          *)
(***************************************************************************)
EXTENDS Integers, Sequences, FiniteSets, TLC

VARIABLES
    srcKind,       \* the source file: "missing", "ioerror", "undecodable", "text"
    srcText,       \* its decoded text (when srcKind = "text")
    outFile,       \* search_results.txt: [exists, text]
    search_terms,  \* the ordered term list
    pc,            \* position of the run in the module body
    err,           \* the exception being propagated, "none" when there is none
    content,       \* the str read from the source
    results,       \* the list of formatted blocks
    k,             \* 1-based position of the for loop in search_terms
    index, start, end,   \* the loop body's names (Unbound before assignment)
    handles,       \* the file handles that are open
    reads, writes, \* read() / write() calls issued by the current run
    run,           \* number of the current run
    prevOut,       \* search_results.txt as it was when the current run began
    prevDone       \* the previous run completed normally

vars == <<srcKind, srcText, outFile, search_terms, pc, err, content, results,
          k, index, start, end, handles, reads, writes, run, prevOut, prevDone>>

----------------------------------------------------------------------------
(* Bounds of the model *)

MaxRuns == 2

----------------------------------------------------------------------------
(* Program constants *)

\* index - 500
Before == 500
\* index + 1500
After == 1500

\* the value of a name that no assignment has bound yet
Unbound == 0 - 2

----------------------------------------------------------------------------
(* Text helpers *)

Max(a, b) == IF a >= b THEN a ELSE b
Min(a, b) == IF a <= b THEN a ELSE b

\* "x" * n
Xs(n) == [i \in 1..n |-> 120]

\* the literal pieces of the f-string
HeaderOpen  == <<45, 45, 45, 32, 77, 97, 116, 99, 104, 32, 102, 111, 114, 32, 39>>
HeaderClose == <<39, 32, 45, 45, 45, 10>>
Newline     == <<10>>

\* the hardcoded terms
TermYutong == <<50976, 53685, 40, 49548, 48708, 41, 44592, 54620>>
TermSobi   == <<49548, 48708, 44592, 54620>>
Term50     == <<53, 48, 37>>
Term40     == <<52, 48, 37>>
TermJanyeo == <<51092, 50668>>
HardcodedTerms == <<TermYutong, TermSobi, Term50, Term40, TermJanyeo>>

\* term occurs in text at 0-based offset i
OccursAt(text, term, i) ==
    /\ i >= 0
    /\ i + Len(term) <= Len(text)
    /\ \A j \in 1..Len(term) : text[i + j] = term[j]

\* str.rfind: the highest offset at which term occurs, -1 when there is none
FindLast(text, term) ==
    LET hits == {i \in 0..(Len(text) - Len(term)) : OccursAt(text, term, i)}
    IN  IF hits = {} THEN 0 - 1
        ELSE CHOOSE i \in hits : \A j \in hits : j <= i

\* str.find: the lowest offset at which term occurs, -1 when there is none
Find(text, term) ==
    LET hits == {i \in 0..(Len(text) - Len(term)) : OccursAt(text, term, i)}
    IN  IF hits = {} THEN 0 - 1
        ELSE CHOOSE i \in hits : \A j \in hits : i <= j

\* one bound of a Python slice, normalised against a length
SliceBound(b, len) == IF b < 0 THEN Max(0, b + len) ELSE Min(b, len)

\* text[a:b] with Python's slice semantics
Slice(text, a, b) ==
    LET lo == SliceBound(a, Len(text))
        hi == SliceBound(b, Len(text))
    IN  IF hi <= lo THEN <<>> ELSE SubSeq(text, lo + 1, hi)

\* "\n".join(blocks)
RECURSIVE Join(_)
Join(blocks) ==
    IF blocks = <<>> THEN <<>>
    ELSE IF Len(blocks) = 1 THEN blocks[1]
    ELSE blocks[1] \o Newline \o Join(Tail(blocks))

\* f"--- Match for '{term}' ---\n{snippet}\n"
FormatBlock(term, snippet) ==
    HeaderOpen \o term \o HeaderClose \o snippet \o Newline

----------------------------------------------------------------------------
(* The loop body's expressions *)

\* if index != -1  (mutant: truthiness of index)
FoundTruthy(i) == i > 0
Found(i) == i # 0 - 1

\* start = max(0, index - 500)  (mutants: no clamp; sign slip)
WindowStartNoClamp(i) == i - Before
WindowStartAhead(i) == Max(0, i + Before)
WindowStart(i) == Max(0, i - Before)

\* end = min(len(content), index + 1500)  (mutant: one past the term start)
WindowEndPlusOne(i, len) == Min(len, i + 1 + After)
WindowEnd(i, len) == Min(len, i + After)

\* results.append(block)  (mutant: insert at the front)
Prepend(blocks, block) == <<block>> \o blocks
AppendBlock(blocks, block) == Append(blocks, block)

\* open(..., 'w') truncates the file  (mutant: 'a' keeps it)
OpenedForAppend(old) == old
Opened(old) == <<>>

----------------------------------------------------------------------------
(* Inputs *)

Abc == <<97, 98, 99>>
OldText == <<111, 108, 100>>

\* "abc" + "50%" + "x"*2000
ScenarioContent == Abc \o Term50 \o Xs(2000)

\* two words and the filler between them
WordPairs == { <<Term50, After + 100, Term50>>, <<Term40, 0, Term50>>,
               <<TermJanyeo, After + 100, TermYutong>>, <<Abc, 0, <<>>>> }

\* filler before the first word and after the second
LeadGaps == {0, Before, Before + 1}
TailGaps == {0, After - 3, After - 2}

Contents ==
    { Xs(a) \o w[1] \o Xs(w[2]) \o w[3] \o Xs(c) :
        a \in LeadGaps, c \in TailGaps, w \in WordPairs }
    \cup {ScenarioContent, <<>>}

TermLists == {HardcodedTerms, <<Term50>>}

\* <<content, term list>>: the hardcoded list over every content, the
\* scenario's one-term list over the scenario, an empty and a matchless content
Inputs ==
    (Contents \X {HardcodedTerms})
    \cup ({ScenarioContent, <<>>, Abc \o Xs(Before)} \X {<<Term50>>})

OutFiles == { [exists |-> FALSE, text |-> <<>>],
              [exists |-> TRUE,  text |-> OldText] }

----------------------------------------------------------------------------
(* The run *)

Init ==
    /\ srcKind \in {"missing", "ioerror", "undecodable", "text"}
    /\ \E inp \in (IF srcKind = "text" THEN Inputs ELSE {<<>>} \X TermLists) :
         srcText = inp[1] /\ search_terms = inp[2]
    /\ outFile \in OutFiles
    /\ pc = "start"
    /\ err = "none"
    /\ content = <<>>
    /\ results = <<>>
    /\ k = 0
    /\ index = Unbound /\ start = Unbound /\ end = Unbound
    /\ handles = {}
    /\ reads = 0 /\ writes = 0
    /\ run = 1
    /\ prevOut = outFile
    /\ prevDone = FALSE

\* the same open with the failure swallowed and an empty content substituted
OpenSourceFallback ==
    /\ pc = "start"
    /\ IF srcKind = "missing"
       THEN /\ pc' = "setup"
            /\ UNCHANGED handles
       ELSE /\ pc' = "read"
            /\ handles' = handles \cup {"src"}
    /\ UNCHANGED <<srcKind, srcText, outFile, search_terms, err, content, results,
                   k, index, start, end, reads, writes, run, prevOut, prevDone>>

\* with open(file_path, 'r', encoding='utf-8') as f:   -- the open
OpenSource ==
    /\ pc = "start"
    /\ IF srcKind = "missing"
       THEN /\ pc' = "error"
            /\ err' = "FileAccessError"
            /\ UNCHANGED handles
       ELSE /\ pc' = "read"
            /\ handles' = handles \cup {"src"}
            /\ UNCHANGED err
    /\ UNCHANGED <<srcKind, srcText, outFile, search_terms, content, results,
                   k, index, start, end, reads, writes, run, prevOut, prevDone>>

\* the same read without the with statement: a failing read() leaves f open
ReadSourceLeaky ==
    /\ pc = "read"
    /\ reads' = reads + 1
    /\ IF srcKind = "text"
       THEN /\ content' = srcText
            /\ pc' = "closeSrc"
            /\ UNCHANGED err
       ELSE /\ err' = (IF srcKind = "ioerror" THEN "FileAccessError" ELSE "DecodeError")
            /\ pc' = "error"
            /\ UNCHANGED content
    /\ UNCHANGED <<srcKind, srcText, outFile, search_terms, results, k, index,
                   start, end, handles, writes, run, prevOut, prevDone>>

\*     content = f.read()
ReadSource ==
    /\ pc = "read"
    /\ reads' = reads + 1
    /\ IF srcKind = "text"
       THEN /\ content' = srcText
            /\ UNCHANGED err
       ELSE /\ err' = (IF srcKind = "ioerror" THEN "FileAccessError" ELSE "DecodeError")
            /\ UNCHANGED content
    /\ pc' = "closeSrc"
    /\ UNCHANGED <<srcKind, srcText, outFile, search_terms, results, k, index,
                   start, end, handles, writes, run, prevOut, prevDone>>

\* leaving the with block closes f, on the normal and on the exception path
CloseSource ==
    /\ pc = "closeSrc"
    /\ handles' = handles \ {"src"}
    /\ pc' = IF err = "none" THEN "setup" ELSE "error"
    /\ UNCHANGED <<srcKind, srcText, outFile, search_terms, err, content, results,
                   k, index, start, end, reads, writes, run, prevOut, prevDone>>

\* search_terms = [...]; results = []
Setup ==
    /\ pc = "setup"
    /\ results' = <<>>
    /\ k' = 1
    /\ pc' = IF Len(search_terms) = 0 THEN "openOut" ELSE "scan"
    /\ UNCHANGED <<srcKind, srcText, outFile, search_terms, err, content, index,
                   start, end, handles, reads, writes, run, prevOut, prevDone>>

\* one iteration of  for term in search_terms
ScanTerm ==
    /\ pc = "scan"
    /\ k <= Len(search_terms)
    /\ LET term == search_terms[k]
           i    == Find(content, term)
       IN  /\ index' = i
           /\ IF Found(i)
              THEN /\ start' = WindowStart(i)
                   /\ end' = WindowEnd(i, Len(content))
                   /\ results' = AppendBlock(results,
                                    FormatBlock(term, Slice(content, start', end')))
              ELSE UNCHANGED <<start, end, results>>
    /\ k' = k + 1
    /\ pc' = IF k = Len(search_terms) THEN "openOut" ELSE "scan"
    /\ UNCHANGED <<srcKind, srcText, outFile, search_terms, err, content, handles,
                   reads, writes, run, prevOut, prevDone>>

\* the same open, skipped when there is nothing to report
OpenOutputUnlessEmpty ==
    /\ pc = "openOut"
    /\ IF results = <<>>
       THEN /\ pc' = "done"
            /\ UNCHANGED <<outFile, handles, err>>
       ELSE /\ outFile' = [exists |-> TRUE, text |-> Opened(outFile.text)]
            /\ handles' = handles \cup {"out"}
            /\ pc' = "write"
            /\ UNCHANGED err
    /\ UNCHANGED <<srcKind, srcText, search_terms, content, results, k, index,
                   start, end, reads, writes, run, prevOut, prevDone>>

\* with open('search_results.txt', 'w', encoding='utf-8') as f:   -- the open
OpenOutput ==
    /\ pc = "openOut"
    /\ \/ /\ outFile' = [exists |-> TRUE, text |-> Opened(outFile.text)]
          /\ handles' = handles \cup {"out"}
          /\ pc' = "write"
          /\ UNCHANGED err
       \/ /\ err' = "FileAccessError"
          /\ pc' = "error"
          /\ UNCHANGED <<outFile, handles>>
    /\ UNCHANGED <<srcKind, srcText, search_terms, content, results, k, index,
                   start, end, reads, writes, run, prevOut, prevDone>>

\*     f.write("\n".join(results))
WriteOutput ==
    /\ pc = "write"
    /\ writes' = writes + 1
    /\ LET data == Join(results)
       IN  \/ /\ outFile' = [outFile EXCEPT !.text = @ \o data]
              /\ UNCHANGED err
           \/ /\ outFile' = [outFile EXCEPT !.text = @ \o SubSeq(data, 1, Len(data) \div 2)]
              /\ err' = "FileAccessError"
    /\ pc' = "closeOut"
    /\ UNCHANGED <<srcKind, srcText, search_terms, content, results, k, index,
                   start, end, handles, reads, run, prevOut, prevDone>>

\* leaving the with block closes f, on the normal and on the exception path
CloseOutput ==
    /\ pc = "closeOut"
    /\ handles' = handles \ {"out"}
    /\ pc' = IF err = "none" THEN "done" ELSE "error"
    /\ UNCHANGED <<srcKind, srcText, outFile, search_terms, err, content, results,
                   k, index, start, end, reads, writes, run, prevOut, prevDone>>

Terminal == pc \in {"done", "error"}

\* the script is started again: a fresh process, the same files
Rerun ==
    /\ Terminal
    /\ run < MaxRuns
    /\ run' = run + 1
    /\ prevOut' = outFile
    /\ prevDone' = (pc = "done")
    /\ pc' = "start"
    /\ err' = "none"
    /\ content' = <<>>
    /\ results' = <<>>
    /\ k' = 0
    /\ index' = Unbound /\ start' = Unbound /\ end' = Unbound
    /\ handles' = {}
    /\ reads' = 0 /\ writes' = 0
    /\ UNCHANGED <<srcKind, srcText, outFile, search_terms>>

Next ==
    \/ OpenSource
    \/ ReadSource
    \/ CloseSource
    \/ Setup
    \/ ScanTerm
    \/ OpenOutput
    \/ WriteOutput
    \/ CloseOutput
    \/ Rerun

Spec == Init /\ [][Next]_vars

----------------------------------------------------------------------------
(* Vocabulary of the properties *)

\* term occurs somewhere in text
Occurs(text, term) ==
    \E i \in 0..(Len(text) - Len(term)) : OccursAt(text, term, i)

\* i is the lowest offset at which term occurs in text
IsFirstOccurrence(text, term, i) ==
    /\ OccursAt(text, term, i)
    /\ \A j \in 0..(i - 1) : ~OccursAt(text, term, j)

\* block carries the header line of term
IsBlockFor(block, term) ==
    LET h == HeaderOpen \o term \o HeaderClose
    IN  Len(block) >= Len(h) /\ SubSeq(block, 1, Len(h)) = h

\* the snippet held by a block of term: what lies between header and final newline
SnippetOf(block, term) ==
    SubSeq(block, Len(HeaderOpen) + Len(term) + Len(HeaderClose) + 1, Len(block) - 1)

\* the positions of results holding a block of term
BlocksFor(term) == {p \in 1..Len(results) : IsBlockFor(results[p], term)}

\* the positions of the term list whose term occurs in the content
Matched == {n \in 1..Len(search_terms) : Occurs(content, search_terms[n])}

Completed == pc = "done"

----------------------------------------------------------------------------
(* The properties *)

\* C1: after a completed run, for every listed term that occurs in the
\* content the report holds a block, and the snippet of every block for it
\* is exactly content[max(0, i-500) : min(len(content), i+1500)], with i the
\* lowest offset at which the term occurs.
C1_SnippetAtFirstOccurrence ==
    Completed =>
        \A n \in 1..Len(search_terms) :
            \A i \in 0..Len(content) :
                IsFirstOccurrence(content, search_terms[n], i) =>
                    LET lo == IF i - 500 > 0 THEN i - 500 ELSE 0
                        hi == IF i + 1500 < Len(content) THEN i + 1500 ELSE Len(content)
                        expected == FormatBlock(search_terms[n], SubSeq(content, lo + 1, hi))
                    IN  /\ BlocksFor(search_terms[n]) # {}
                        /\ \A p \in BlocksFor(search_terms[n]) : results[p] = expected

\* a term occurring twice, far enough apart for the two windows to differ,
\* has been scanned and reported
C1_Witness ==
    /\ Completed
    /\ \E n \in 1..Len(search_terms) :
         /\ Find(content, search_terms[n]) >= 0
         /\ Find(content, search_terms[n]) + 1500 < FindLast(content, search_terms[n])
         /\ BlocksFor(search_terms[n]) # {}

\* C2: after a completed run every listed term has exactly one block if it
\* occurs in the content and none if it does not, the number of blocks is the
\* number of listed terms that occur, and the file holds the joined blocks.
C2_OneBlockPerMatchedTerm ==
    Completed =>
        /\ \A n \in 1..Len(search_terms) :
             Cardinality(BlocksFor(search_terms[n])) =
                 (IF Occurs(content, search_terms[n]) THEN 1 ELSE 0)
        /\ Len(results) = Cardinality(Matched)
        /\ outFile.exists
        /\ outFile.text = Join(results)

\* a completed run over the full term list in which one term occurs twice
\* and the others not at all
C2_Witness ==
    /\ Completed
    /\ Len(search_terms) = 5
    /\ Len(results) = 1
    /\ 0 <= Find(content, Term50)
    /\ Find(content, Term50) < FindLast(content, Term50)

\* C3 as stated: the scenario's snippet is "abc" + "50%" + "x"*1500.
C3_ScenarioAsStated ==
    (Completed /\ content = ScenarioContent /\ search_terms = <<Term50>>) =>
        /\ results = <<FormatBlock(Term50, Abc \o Term50 \o Xs(1500))>>
        /\ outFile.text = Join(results)

\* C3 amended: with content "abc" + "50%" + "x"*2000 and term list ["50%"] the
\* report has exactly one block, for "50%", whose snippet is
\* "abc" + "50%" + "x"*1497, the window from offset 0 to min(len, 3 + 1500).
C3_ScenarioSnippet ==
    (Completed /\ content = ScenarioContent /\ search_terms = <<Term50>>) =>
        /\ results = <<FormatBlock(Term50, Abc \o Term50 \o Xs(1497))>>
        /\ outFile.exists
        /\ outFile.text = FormatBlock(Term50, Abc \o Term50 \o Xs(1497))

C3_Witness ==
    Completed /\ content = ScenarioContent /\ search_terms = <<Term50>>

\* C4: when the source cannot be opened, read or decoded, the run never gets
\* past the load: the output file stays as it was when the run began (kept
\* if it existed, not created if it did not), no output handle is opened, no
\* search and no write step is executed, and the run can only end in error.
C4_FailedLoadLeavesOutputAlone ==
    srcKind # "text" =>
        /\ outFile = prevOut
        /\ "out" \notin handles
        /\ writes = 0
        /\ k = 0 /\ results = <<>> /\ index = Unbound
        /\ pc \in {"start", "read", "closeSrc", "error"}
        /\ pc = "error" => err \in {"FileAccessError", "DecodeError"}

\* the path does not exist, the run has aborted, the older report is intact
C4_Witness ==
    /\ srcKind = "missing"
    /\ pc = "error"
    /\ err = "FileAccessError"
    /\ outFile = [exists |-> TRUE, text |-> OldText]

\* C5: the blocks appear in the order of their terms in the term list: for
\* two matched terms, every block of the one listed earlier stands before
\* every block of the one listed later, wherever the terms occur.
C5_BlocksInTermOrder ==
    Completed =>
        \A a, b \in Matched :
            a < b =>
                /\ BlocksFor(search_terms[a]) # {}
                /\ BlocksFor(search_terms[b]) # {}
                /\ \A p \in BlocksFor(search_terms[a]) :
                     \A q \in BlocksFor(search_terms[b]) : p < q

\* two matched terms whose order in the content is the reverse of the list's
C5_Witness ==
    /\ Completed
    /\ \E a, b \in Matched :
         /\ a < b
         /\ Find(content, search_terms[b]) < Find(content, search_terms[a])

\* C6: right after a match at index i in a content of length L the window
\* satisfies 0 <= start <= i <= end <= L and end - start <= 2000; start is 0
\* whenever i <= 500 and end is L whenever i + 1500 >= L.
C6_WindowInRange ==
    index >= 0 =>
        /\ 0 <= start /\ start <= index /\ index <= end /\ end <= Len(content)
        /\ end - start <= 2000
        /\ index <= 500 => start = 0
        /\ index + 1500 >= Len(content) => end = Len(content)

\* a match at the last index whose window still starts at 0, close enough to
\* the end of the content for the window to stop there
C6_Witness ==
    /\ index = 500
    /\ start = 0
    /\ end = Len(content)
    /\ Len(content) > index

\* C7: when a run that follows a completed run over the same source completes,
\* the output file is what the earlier run left; a completed run leaves the
\* joined blocks and nothing of what the file held before.
C7_SecondRunSameOutput ==
    Completed =>
        /\ outFile = [exists |-> TRUE, text |-> Join(results)]
        /\ (run >= 2 /\ prevDone) => outFile = prevOut

\* a second completed run after a completed one, with a non-empty report
\* and an output file that held other text before the first run
C7_Witness ==
    /\ Completed /\ run = 2 /\ prevDone
    /\ outFile.text # <<>>
    /\ outFile.text # OldText

\* C8: when no listed term occurs in the content, scanning raises nothing,
\* and a completed run has written the file: it exists and holds the empty
\* report, whatever it held before.
C8_EmptyReportWritten ==
    (/\ Terminal
     /\ srcKind = "text"
     /\ \A n \in 1..Len(search_terms) : ~Occurs(srcText, search_terms[n])) =>
        /\ pc = "error" => k = Len(search_terms) + 1
        /\ Completed =>
             /\ results = <<>>
             /\ writes = 1
             /\ outFile = [exists |-> TRUE, text |-> <<>>]

\* a completed run without any match over a non-empty content, replacing an
\* older report
C8_Witness ==
    /\ Completed /\ run = 1
    /\ content # <<>>
    /\ results = <<>>
    /\ prevOut = [exists |-> TRUE, text |-> OldText]
    /\ outFile.text = <<>>

\* C9: no handle is open in a terminal state, completed or aborted; a run
\* issues at most one read and at most one write; the source handle and the
\* output handle are never open together.
C9_HandlesReleased ==
    /\ Terminal => handles = {}
    /\ reads <= 1 /\ writes <= 1
    /\ Cardinality(handles) <= 1
    /\ "out" \in handles => pc \in {"write", "closeOut"}
    /\ "src" \in handles => pc \in {"read", "closeSrc"}

\* a run aborted by a decode error after its one read
C9_Witness ==
    /\ pc = "error" /\ err = "DecodeError"
    /\ reads = 1
    /\ handles = {}

\* C10: right after a match at index i the block just appended holds the
\* whole term at snippet offset min(i, 500).
C10_TermInsideSnippet ==
    (index >= 0 /\ k >= 2) =>
        /\ results # <<>>
        /\ IsBlockFor(results[Len(results)], search_terms[k - 1])
        /\ OccursAt(SnippetOf(results[Len(results)], search_terms[k - 1]),
                    search_terms[k - 1],
                    IF index < 500 THEN index ELSE 500)

\* the longest term matched beyond offset 500, with less than 1500 characters
\* of content left after the match
C10_Witness ==
    /\ index > 500 /\ k >= 2
    /\ search_terms[k - 1] = TermYutong
    /\ end = Len(content)
    /\ results # <<>>

====
